---------------------------- MODULE Spec2Model ----------------------------
(***************************************************************************)
(* Model of the AAP 2.4 -> 2.5 migration scripts:                          *)
(*   scripts/transform_24_to_25.py  (normalizers and orchestrator)         *)
(*   scripts/verify_yaml.py         (schema verifier)                      *)
(*                                                                         *)
(* Python values are tagged records [t |-> tag, v |-> payload]:            *)
(*   none, bool, int, str (a sequence of one-character strings),           *)
(*   list (a sequence of values), dict (a function from str payloads,      *)
(*   i.e. character sequences, to values).  A raised exception is the      *)
(*   pseudo-value [t |-> "raise", v |-> exception name].                   *)
(***************************************************************************)
EXTENDS Integers, Sequences, FiniteSets, TLC

(* ------------------------- string literals --------------------------- *)
s_name ==
    <<"n", "a", "m", "e">>
s_state ==
    <<"s", "t", "a", "t", "e">>
s_present ==
    <<"p", "r", "e", "s", "e", "n", "t">>
s_description ==
    <<"d", "e", "s", "c", "r", "i", "p", "t", "i", "o", "n">>
s_organization ==
    <<"o", "r", "g", "a", "n", "i", "z", "a", "t", "i", "o", "n">>
s_organization_id ==
    <<"o", "r", "g", "a", "n", "i", "z", "a", "t", "i", "o", "n", "_", "i", "d">>
s_credential_type ==
    <<"c", "r", "e", "d", "e", "n", "t", "i", "a", "l", "_", "t", "y", "p", "e">>
s_kind ==
    <<"k", "i", "n", "d">>
s_inputs ==
    <<"i", "n", "p", "u", "t", "s">>
s_password ==
    <<"p", "a", "s", "s", "w", "o", "r", "d">>
s_secret ==
    <<"s", "e", "c", "r", "e", "t">>
s_ssh_key_data ==
    <<"s", "s", "h", "_", "k", "e", "y", "_", "d", "a", "t", "a">>
s_ssh_key_unlock ==
    <<"s", "s", "h", "_", "k", "e", "y", "_", "u", "n", "l", "o", "c", "k">>
s_token ==
    <<"t", "o", "k", "e", "n">>
s_client_secret ==
    <<"c", "l", "i", "e", "n", "t", "_", "s", "e", "c", "r", "e", "t">>
s_become_password ==
    <<"b", "e", "c", "o", "m", "e", "_", "p", "a", "s", "s", "w", "o", "r", "d">>
s_scm_type ==
    <<"s", "c", "m", "_", "t", "y", "p", "e">>
s_scm_url ==
    <<"s", "c", "m", "_", "u", "r", "l">>
s_scm_branch ==
    <<"s", "c", "m", "_", "b", "r", "a", "n", "c", "h">>
s_scm_update_on_launch ==
    <<"s", "c", "m", "_", "u", "p", "d", "a", "t", "e", "_", "o", "n", "_", "l", "a", "u", "n", "c", "h">>
s_allow_override ==
    <<"a", "l", "l", "o", "w", "_", "o", "v", "e", "r", "r", "i", "d", "e">>
s_git ==
    <<"g", "i", "t">>
s_manual ==
    <<"m", "a", "n", "u", "a", "l">>
s_main ==
    <<"m", "a", "i", "n">>
s_variables ==
    <<"v", "a", "r", "i", "a", "b", "l", "e", "s">>
s_normal ==
    <<"n", "o", "r", "m", "a", "l">>
s_project ==
    <<"p", "r", "o", "j", "e", "c", "t">>
s_inventory ==
    <<"i", "n", "v", "e", "n", "t", "o", "r", "y">>
s_execution_environment ==
    <<"e", "x", "e", "c", "u", "t", "i", "o", "n", "_", "e", "n", "v", "i", "r", "o", "n", "m", "e", "n", "t">>
s_credentials ==
    <<"c", "r", "e", "d", "e", "n", "t", "i", "a", "l", "s">>
s_job_type ==
    <<"j", "o", "b", "_", "t", "y", "p", "e">>
s_playbook ==
    <<"p", "l", "a", "y", "b", "o", "o", "k">>
s_survey_enabled ==
    <<"s", "u", "r", "v", "e", "y", "_", "e", "n", "a", "b", "l", "e", "d">>
s_limit ==
    <<"l", "i", "m", "i", "t">>
s_verbosity ==
    <<"v", "e", "r", "b", "o", "s", "i", "t", "y">>
s_run ==
    <<"r", "u", "n">>
s_image ==
    <<"i", "m", "a", "g", "e">>
s_pull ==
    <<"p", "u", "l", "l">>
s_missing ==
    <<"m", "i", "s", "s", "i", "n", "g">>
s_id ==
    <<"i", "d">>
s_controller_organizations ==
    <<"c", "o", "n", "t", "r", "o", "l", "l", "e", "r", "_", "o", "r", "g", "a", "n", "i", "z", "a", "t", "i", "o", "n", "s">>
s_controller_credentials ==
    <<"c", "o", "n", "t", "r", "o", "l", "l", "e", "r", "_", "c", "r", "e", "d", "e", "n", "t", "i", "a", "l", "s">>
s_controller_projects ==
    <<"c", "o", "n", "t", "r", "o", "l", "l", "e", "r", "_", "p", "r", "o", "j", "e", "c", "t", "s">>
s_controller_inventories ==
    <<"c", "o", "n", "t", "r", "o", "l", "l", "e", "r", "_", "i", "n", "v", "e", "n", "t", "o", "r", "i", "e", "s">>
s_controller_templates ==
    <<"c", "o", "n", "t", "r", "o", "l", "l", "e", "r", "_", "t", "e", "m", "p", "l", "a", "t", "e", "s">>
s_controller_workflows ==
    <<"c", "o", "n", "t", "r", "o", "l", "l", "e", "r", "_", "w", "o", "r", "k", "f", "l", "o", "w", "s">>
s_controller_execution_environments ==
    <<"c", "o", "n", "t", "r", "o", "l", "l", "e", "r", "_", "e", "x", "e", "c", "u", "t", "i", "o", "n", "_", "e", "n", "v", "i", "r", "o", "n", "m", "e", "n", "t", "s">>
s_Machine ==
    <<"M", "a", "c", "h", "i", "n", "e">>
s_SourceControl ==
    <<"S", "o", "u", "r", "c", "e", " ", "C", "o", "n", "t", "r", "o", "l">>
s_Vault ==
    <<"V", "a", "u", "l", "t">>
s_AWS ==
    <<"A", "m", "a", "z", "o", "n", " ", "W", "e", "b", " ", "S", "e", "r", "v", "i", "c", "e", "s">>
s_K8sBearerToken ==
    <<"O", "p", "e", "n", "S", "h", "i", "f", "t", " ", "o", "r", " ", "K", "u", "b", "e", "r", "n", "e", "t", "e", "s", " ", "A", "P", "I", " ", "B", "e", "a", "r", "e", "r", " ", "T", "o", "k", "e", "n">>
s_K8sCertificate ==
    <<"O", "p", "e", "n", "S", "h", "i", "f", "t", " ", "o", "r", " ", "K", "u", "b", "e", "r", "n", "e", "t", "e", "s", " ", "A", "P", "I", " ", "C", "e", "r", "t", "i", "f", "i", "c", "a", "t", "e">>

(* ------------------------- Python values ----------------------------- *)
None == [t |-> "none", v |-> FALSE]
S(s) == [t |-> "str", v |-> s]
I(n) == [t |-> "int", v |-> n]
B(b) == [t |-> "bool", v |-> b]
L(l) == [t |-> "list", v |-> l]
D(m) == [t |-> "dict", v |-> m]
Raise(e) == [t |-> "raise", v |-> e]

EmptyStr == <<>>
EmptyMap == <<>>

IsRaise(x) == x.t = "raise"

\* Python truth value of x (what `x or y`, `if x` and bool(x) test).
truthy(x) ==
    CASE x.t = "none" -> FALSE
      [] x.t = "bool" -> x.v
      [] x.t = "int"  -> x.v # 0
      [] x.t = "str"  -> Len(x.v) > 0
      [] x.t = "list" -> Len(x.v) > 0
      [] x.t = "dict" -> DOMAIN x.v # {}

\* `a or b`
Or(a, b) == IF truthy(a) THEN a ELSE b

\* bool(x)
bool(x) == B(truthy(x))

\* m.get(k) and m.get(k, dflt) on the payload m of a dict
get(m, k) == IF k \in DOMAIN m THEN m[k] ELSE None
getd(m, k, dflt) == IF k \in DOMAIN m THEN m[k] ELSE dflt

\* isinstance(x, str), isinstance(x, dict), isinstance(x, list)
isstr(x) == x.t = "str"
isdict(x) == x.t = "dict"
islist(x) == x.t = "list"

\* a value usable as a dictionary key
hashable(x) == x.t \in {"none", "bool", "int", "str"}

Whitespace == {" ", "\t", "\n"}

RECURSIVE lstrip(_)
lstrip(s) ==
    IF s = <<>> \/ Head(s) \notin Whitespace THEN s ELSE lstrip(Tail(s))

RECURSIVE rstrip(_)
rstrip(s) ==
    IF s = <<>> \/ s[Len(s)] \notin Whitespace THEN s
    ELSE rstrip(SubSeq(s, 1, Len(s) - 1))

\* str.strip()
strip(s) == rstrip(lstrip(s))

\* m with key k removed: m.pop(k, None)
pop(m, k) == [j \in DOMAIN m \ {k} |-> m[j]]

(* -------------------- transform_24_to_25.py -------------------------- *)

CREDTYPE_MAP ==
    (s_Machine :> s_Machine) @@ (s_SourceControl :> s_SourceControl)
    @@ (s_Vault :> s_Vault) @@ (s_AWS :> s_AWS)
    @@ (s_K8sBearerToken :> s_K8sBearerToken)
    @@ (s_K8sCertificate :> s_K8sCertificate)

\* CREDTYPE_MAP.get(x, x) for a hashable x
CREDTYPE_MAP_get(x) ==
    IF isstr(x) /\ x.v \in DOMAIN CREDTYPE_MAP THEN S(CREDTYPE_MAP[x.v]) ELSE x

\* a variant that strips leading whitespace only
_stripped_left_only(x) == IF isstr(x) THEN S(lstrip(x.v)) ELSE x

_stripped(x) == IF isstr(x) THEN S(strip(x.v)) ELSE x

\* a variant without the bare-string case
_name_mapping_only(x) == IF isdict(x) THEN get(x.v, s_name) ELSE None

_name(x) ==
    IF isdict(x) THEN get(x.v, s_name)
    ELSE IF isstr(x) THEN x
    ELSE None

\* a variant that prunes empty strings too
sparse_drops_empty_str(payload) ==
    [k \in {j \in DOMAIN payload :
              payload[j] \notin {None, D(EmptyMap), L(<<>>), S(EmptyStr)}}
        |-> payload[k]]

\* {k: v for k, v in payload.items() if v not in (None, {}, [])}
sparse(payload) ==
    [k \in {j \in DOMAIN payload :
              payload[j] \notin {None, D(EmptyMap), L(<<>>)}} |-> payload[k]]

\* `_stripped(ref) if ref else None`
ref(x) == IF truthy(x) THEN _stripped(x) ELSE None

normalize_org(o) ==
    IF ~isdict(o) THEN Raise("AttributeError")
    ELSE D((s_name :> _stripped(get(o.v, s_name))) @@ (s_state :> S(s_present)))

\* dict(x): a mapping is copied; a sequence must hold 2-item elements (a later
\* pair overrides an earlier one); a number or a boolean is not iterable; a
\* non-empty str iterates its characters, none of which has 2 items.
\* Keys are str, as in every JSON document; an element that is a mapping
\* of exactly two keys (read by dict() as a pair of its keys, in insertion
\* order, which a function does not record) is not among the inputs drawn.
RECURSIVE dict_pairs(_)
dict_pairs(l) ==
    IF l = <<>> THEN D(EmptyMap)
    ELSE LET e == Head(l) IN
         IF e.t \in {"none", "bool", "int"} THEN Raise("TypeError")
         ELSE IF isdict(e) \/ Len(e.v) # 2 THEN Raise("ValueError")
         ELSE LET k == IF isstr(e) THEN S(<<e.v[1]>>) ELSE e.v[1]
                  x == IF isstr(e) THEN S(<<e.v[2]>>) ELSE e.v[2]
                  rest == dict_pairs(Tail(l))
              IN IF ~isstr(k) THEN Raise("TypeError")
                 ELSE IF IsRaise(rest) THEN rest
                 ELSE D(rest.v @@ (k.v :> x))

dict_(x) ==
    CASE isdict(x) -> x
      [] islist(x) -> dict_pairs(x.v)
      [] isstr(x)  -> IF x.v = <<>> THEN D(EmptyMap) ELSE Raise("ValueError")
      [] OTHER     -> Raise("TypeError")

SENSITIVE_KEYS ==
    <<s_password, s_secret, s_ssh_key_data, s_ssh_key_unlock, s_token,
      s_client_secret, s_become_password>>

\* for key in (...): inputs.pop(key, None) -- from position i on
RECURSIVE pop_keys(_, _, _)
pop_keys(m, keys, i) ==
    IF i > Len(keys) THEN m ELSE pop_keys(pop(m, keys[i]), keys, i + 1)

\* a variant whose key list starts after "password"
strip_sensitive_keeps_password(m) == pop_keys(m, SENSITIVE_KEYS, 2)

strip_sensitive(m) == pop_keys(m, SENSITIVE_KEYS, 1)

normalize_credential(c) ==
    IF ~isdict(c) THEN Raise("AttributeError")
    ELSE
    LET ct == Or(get(c.v, s_credential_type), D(EmptyMap)) IN
    IF ~isdict(ct) THEN Raise("AttributeError")
    ELSE
    LET ct_name0 == Or(get(ct.v, s_name), get(c.v, s_kind)) IN
    IF ~hashable(ct_name0) THEN Raise("TypeError")
    ELSE
    LET ct_name == CREDTYPE_MAP_get(ct_name0)
        org == Or(_name(get(c.v, s_organization)),
                  _name(get(c.v, s_organization_id)))
        inputs0 == dict_(Or(get(c.v, s_inputs), D(EmptyMap)))
    IN
    IF IsRaise(inputs0) THEN inputs0
    ELSE
    LET inputs == D(strip_sensitive(inputs0.v))
        payload ==
            (s_name :> _stripped(get(c.v, s_name)))
            @@ (s_description :> Or(get(c.v, s_description), S(EmptyStr)))
            @@ (s_organization :> ref(org))
            @@ (s_credential_type :> ct_name)
            @@ (s_inputs :> Or(inputs, D(EmptyMap)))
            @@ (s_state :> S(s_present))
    IN D(sparse(payload))

normalize_project(p) ==
    IF ~isdict(p) THEN Raise("AttributeError")
    ELSE
    LET scm_type == Or(get(p.v, s_scm_type),
                       IF truthy(get(p.v, s_scm_url)) THEN S(s_git)
                       ELSE S(s_manual))
        org == _name(get(p.v, s_organization))
        payload ==
            (s_name :> _stripped(get(p.v, s_name)))
            @@ (s_description :> Or(get(p.v, s_description), S(EmptyStr)))
            @@ (s_organization :> ref(org))
            @@ (s_scm_type :> scm_type)
            @@ (s_scm_url :> get(p.v, s_scm_url))
            @@ (s_scm_branch :> Or(get(p.v, s_scm_branch), S(s_main)))
            @@ (s_scm_update_on_launch :>
                    bool(getd(p.v, s_scm_update_on_launch, B(TRUE))))
            @@ (s_allow_override :> bool(getd(p.v, s_allow_override, B(TRUE))))
            @@ (s_state :> S(s_present))
    IN D(sparse(payload))

normalize_inventory(inv) ==
    IF ~isdict(inv) THEN Raise("AttributeError")
    ELSE
    LET org == _name(get(inv.v, s_organization))
        kind == Or(get(inv.v, s_kind), S(s_normal))
        payload ==
            (s_name :> _stripped(get(inv.v, s_name)))
            @@ (s_description :> Or(get(inv.v, s_description), S(EmptyStr)))
            @@ (s_organization :> ref(org))
            @@ (s_variables :> Or(get(inv.v, s_variables), D(EmptyMap)))
            @@ (s_kind :> kind)
            @@ (s_state :> S(s_present))
    IN D(sparse(payload))

\* the items `for c in x` visits: a sequence's elements, a str's characters;
\* a mapping yields its keys (insertion order is not recorded: only
\* mappings of at most one key are drawn where a sequence is expected).
RECURSIVE keys_seq(_)
keys_seq(ks) ==
    IF ks = {} THEN <<>>
    ELSE LET k == CHOOSE j \in ks : TRUE IN <<S(k)>> \o keys_seq(ks \ {k})

iter(x) ==
    CASE islist(x) -> x.v
      [] isstr(x)  -> [i \in 1..Len(x.v) |-> S(<<x.v[i]>>)]
      [] isdict(x) -> keys_seq(DOMAIN x.v)

iterable(x) == x.t \in {"list", "str", "dict"}

\* [_stripped(_name(c)) for c in items if _name(c)]
RECURSIVE resolve_creds(_)
resolve_creds(items) ==
    IF items = <<>> THEN <<>>
    ELSE LET c == Head(items) IN
         (IF truthy(_name(c)) THEN <<_stripped(_name(c))>> ELSE <<>>)
         \o resolve_creds(Tail(items))

normalize_job_template(t) ==
    IF ~isdict(t) THEN Raise("AttributeError")
    ELSE
    LET org == _name(get(t.v, s_organization))
        proj == _name(get(t.v, s_project))
        inv == _name(get(t.v, s_inventory))
        ee == _name(get(t.v, s_execution_environment))
        raw_creds == Or(get(t.v, s_credentials), L(<<>>))
    IN
    IF ~iterable(raw_creds) THEN Raise("TypeError")
    ELSE
    LET creds == L(resolve_creds(iter(raw_creds)))
        payload ==
            (s_name :> _stripped(get(t.v, s_name)))
            @@ (s_description :> Or(get(t.v, s_description), S(EmptyStr)))
            @@ (s_organization :> ref(org))
            @@ (s_project :> ref(proj))
            @@ (s_inventory :> ref(inv))
            @@ (s_execution_environment :> ref(ee))
            @@ (s_job_type :> Or(get(t.v, s_job_type), S(s_run)))
            @@ (s_playbook :> get(t.v, s_playbook))
            @@ (s_credentials :> creds)
            @@ (s_survey_enabled :> bool(get(t.v, s_survey_enabled)))
            @@ (s_limit :> Or(get(t.v, s_limit), S(EmptyStr)))
            @@ (s_verbosity :> Or(get(t.v, s_verbosity), I(0)))
            @@ (s_state :> S(s_present))
    IN D(sparse(payload))

normalize_workflow_template(w) ==
    IF ~isdict(w) THEN Raise("AttributeError")
    ELSE
    LET org == _name(get(w.v, s_organization))
        payload ==
            (s_name :> _stripped(get(w.v, s_name)))
            @@ (s_description :> Or(get(w.v, s_description), S(EmptyStr)))
            @@ (s_organization :> ref(org))
            @@ (s_state :> S(s_present))
    IN D(sparse(payload))

normalize_execution_environment(ee) ==
    IF ~isdict(ee) THEN Raise("AttributeError")
    ELSE
    LET org == _name(get(ee.v, s_organization))
        payload ==
            (s_name :> _stripped(get(ee.v, s_name)))
            @@ (s_image :> _stripped(get(ee.v, s_image)))
            @@ (s_organization :> ref(org))
            @@ (s_pull :> getd(ee.v, s_pull, S(s_missing)))
            @@ (s_state :> S(s_present))
    IN D(sparse(payload))

KINDS ==
    <<"organization", "credential", "project", "inventory", "job_template",
      "workflow_template", "execution_environment">>

\* the normalizer main() applies to the records of kind k
normalize(k, r) ==
    CASE k = "organization"          -> normalize_org(r)
      [] k = "credential"            -> normalize_credential(r)
      [] k = "project"               -> normalize_project(r)
      [] k = "inventory"             -> normalize_inventory(r)
      [] k = "job_template"          -> normalize_job_template(r)
      [] k = "workflow_template"     -> normalize_workflow_template(r)
      [] k = "execution_environment" -> normalize_execution_environment(r)

(* ------------------------ raw records drawn -------------------------- *)

\* at most this many fields are present in a raw record
MaxFields == 2

padded == <<" ", "W", "e", "b", " ">>
plain == <<"W", "e", "b">>
blank == <<" ">>
s_username == <<"u", "s", "e", "r">>
s_Password == <<"P", "a", "s", "s", "w", "o", "r", "d">>

TextVals == {None, S(EmptyStr), S(blank), S(padded), I(7)}

RefVals ==
    {None, S(padded), S(blank), I(7), D(s_name :> S(padded)),
     D(s_name :> I(7)), D(s_id :> I(7))}

CredTypeVals ==
    {None, D(EmptyMap), D(s_name :> S(s_Machine)), D(s_name :> S(padded)),
     D(s_name :> D(s_id :> I(7))), S(s_Machine)}

InputsVals ==
    {None, D(EmptyMap),
     D((s_password :> S(plain)) @@ (s_username :> S(padded))),
     D(s_become_password :> S(plain)),
     D((s_token :> S(plain)) @@ (s_Password :> S(plain))
       @@ (s_variables :> D(s_secret :> S(plain)))),
     L(<<L(<<S(s_password), S(plain)>>), L(<<S(s_username), S(plain)>>)>>),
     S(plain)}

CredsVals ==
    {None, L(<<>>), L(<<D(s_name :> S(padded)), D(s_id :> I(7))>>),
     L(<<S(blank), S(plain)>>), L(<<D(s_name :> I(7))>>), S(<<"a", " ">>),
     I(7)}

BoolVals == {None, B(TRUE), B(FALSE), I(0), S(plain)}

VerbosityVals == {None, I(0), I(2), B(FALSE)}

VariablesVals == {None, D(EmptyMap), D(s_kind :> S(padded)), L(<<>>), S(plain)}

RefFields ==
    {s_organization, s_organization_id, s_project, s_inventory,
     s_execution_environment}

BoolFields == {s_scm_update_on_launch, s_allow_override, s_survey_enabled}

\* the values drawn for field f of a raw record
FieldVals(f) ==
    CASE f \in RefFields     -> RefVals
      [] f \in BoolFields    -> BoolVals
      [] f = s_credential_type -> CredTypeVals
      [] f = s_inputs        -> InputsVals
      [] f = s_credentials   -> CredsVals
      [] f = s_verbosity     -> VerbosityVals
      [] f = s_variables     -> VariablesVals
      [] OTHER               -> TextVals

\* the fields the normalizer of kind k reads
ReadFields(k) ==
    CASE k = "organization" -> {s_name}
      [] k = "credential" ->
            {s_credential_type, s_kind, s_organization, s_organization_id,
             s_inputs, s_name, s_description}
      [] k = "project" ->
            {s_scm_type, s_scm_url, s_organization, s_name, s_description,
             s_scm_branch, s_scm_update_on_launch, s_allow_override}
      [] k = "inventory" ->
            {s_organization, s_kind, s_name, s_description, s_variables}
      [] k = "job_template" ->
            {s_organization, s_project, s_inventory, s_execution_environment,
             s_credentials, s_name, s_description, s_job_type, s_playbook,
             s_survey_enabled, s_limit, s_verbosity}
      [] k = "workflow_template" -> {s_organization, s_name, s_description}
      [] k = "execution_environment" ->
            {s_organization, s_name, s_image, s_pull}

\* every mapping that holds exactly the fields F, each with a drawn value
RECURSIVE MappingsOver(_)
MappingsOver(F) ==
    IF F = {} THEN {EmptyMap}
    ELSE LET f == CHOOSE g \in F : TRUE IN
         {(f :> x) @@ m : x \in FieldVals(f), m \in MappingsOver(F \ {f})}

NonMappings == {None, S(plain), I(7), L(<<>>)}

\* the sets of at most MaxFields fields a raw record of kind k may hold
FieldSets(k) == {G \in SUBSET ReadFields(k) : Cardinality(G) <= MaxFields}

(* ------------------------------ state -------------------------------- *)

VARIABLES
    nkind,      \* normalizer run: the kind of the record
    raw,        \* normalizer run: the raw record given
    canon,      \* normalizer run: the result of the first application
    again,      \* normalizer run: the result of applying it to canon
    npc,        \* normalizer run: "raw", "once", "twice"
    vkind,      \* validate_list_items call: its kind argument
    vitems,     \* validate_list_items call: its items argument
    verrs,      \* validate_list_items call: the errors returned
    ipc,        \* validate_list_items call: "call", "returned"
    base_exists, \* verifier: whether args.path exists
    strict,     \* verifier: args.strict
    fidx,       \* verifier: position in EXPECTED_FILES of the next file
    warnings,   \* verifier: the warnings list
    errors,     \* verifier: the errors list
    vpc,        \* verifier: "start", "loop", "exit", "raised"
    rc,         \* verifier: the exit code returned (-1: none yet)
    export_exists, \* orchestrator: whether EXPORT_DIR exists
    export,     \* orchestrator: resource -> content of its JSON file
    colls,      \* orchestrator: kind -> normalized list (orgs, creds, ...)
    written,    \* orchestrator: the YAML documents written, in order
    opc,        \* orchestrator: "start", "steps", "exit", "raised"
    ostep,      \* orchestrator: position in MainSteps of the next statement
    orc         \* orchestrator: the exit code returned (-1: none yet)

Unset == [t |-> "unset", v |-> FALSE]

nvars == <<nkind, raw, canon, again, npc>>
ivars == <<vkind, vitems, verrs, ipc>>
vvars == <<base_exists, strict, fidx, warnings, errors, vpc, rc>>
ovars == <<export_exists, export, colls, written, opc, ostep, orc>>

vars == <<nvars, ivars, vvars, ovars>>

\* the variables of the runs a specification does not exercise
IdleNorm ==
    nkind = "organization" /\ raw = Unset /\ canon = Unset /\ again = Unset
    /\ npc = "idle"
IdleItems == vkind = EmptyStr /\ vitems = <<>> /\ verrs = <<>> /\ ipc = "idle"
IdleVerify ==
    base_exists = FALSE /\ strict = FALSE /\ fidx = 0 /\ warnings = <<>>
    /\ errors = <<>> /\ vpc = "idle" /\ rc = -1
IdleOrch ==
    export_exists = FALSE /\ export = <<>> /\ colls = <<>> /\ written = <<>>
    /\ opc = "idle" /\ ostep = 0 /\ orc = -1

KindSet == {KINDS[i] : i \in 1..Len(KINDS)}

InitNorm ==
    /\ nkind \in KindSet
    /\ \/ raw \in NonMappings
       \/ \E F \in FieldSets(nkind) : \E m \in MappingsOver(F) : raw = D(m)
    /\ canon = Unset
    /\ again = Unset
    /\ npc = "raw"
    /\ IdleItems /\ IdleVerify /\ IdleOrch

\* one application of the normalizer of kind k: to the raw record first, then, when
\* that returned a record, to the record returned
Apply(k) ==
    \/ /\ npc = "raw"
       /\ canon' = normalize(k, raw)
       /\ npc' = "once"
       /\ UNCHANGED <<nkind, raw, again, ivars, vvars, ovars>>
    \/ /\ npc = "once"
       /\ ~IsRaise(canon)
       /\ again' = normalize(k, canon)
       /\ npc' = "twice"
       /\ UNCHANGED <<nkind, raw, canon, ivars, vvars, ovars>>

NormalizeOrg == nkind = "organization" /\ Apply("organization")
NormalizeCredential == nkind = "credential" /\ Apply("credential")
NormalizeProject == nkind = "project" /\ Apply("project")
NormalizeInventory == nkind = "inventory" /\ Apply("inventory")
NormalizeJobTemplate == nkind = "job_template" /\ Apply("job_template")
NormalizeWorkflowTemplate ==
    nkind = "workflow_template" /\ Apply("workflow_template")
NormalizeExecutionEnvironment ==
    nkind = "execution_environment" /\ Apply("execution_environment")

NextNorm ==
    \/ NormalizeOrg
    \/ NormalizeCredential
    \/ NormalizeProject
    \/ NormalizeInventory
    \/ NormalizeJobTemplate
    \/ NormalizeWorkflowTemplate
    \/ NormalizeExecutionEnvironment

SpecNorm == InitNorm /\ [][NextNorm]_vars

(* ------------------- properties of the normalizers ------------------- *)

\* the first application returned a record
Returned == npc \in {"once", "twice"} /\ isdict(canon)

IsNull(x) == x.t = "none"
IsEmptyMapping(x) == isdict(x) /\ DOMAIN x.v = {}
IsEmptySequence(x) == islist(x) /\ Len(x.v) = 0

\* s neither starts nor ends with a whitespace character
Trimmed(s) ==
    Len(s) = 0 \/ (s[1] \notin Whitespace /\ s[Len(s)] \notin Whitespace)

\* s without its leading and trailing whitespace, by positions
TrimmedForm(s) ==
    LET ink == {i \in 1..Len(s) : s[i] \notin Whitespace} IN
    IF ink = {} THEN <<>>
    ELSE SubSeq(s, CHOOSE i \in ink : \A j \in ink : i <= j,
                   CHOOSE i \in ink : \A j \in ink : i >= j)

ReferenceFields ==
    {s_organization, s_project, s_inventory, s_execution_environment}

\* C1 (as claimed): whatever the raw record, the record a normalizer returns
\* has no field whose value is null, an empty mapping or an empty sequence.
C1_NoEmptyField ==
    Returned =>
        \A k \in DOMAIN canon.v :
            ~(IsNull(canon.v[k]) \/ IsEmptyMapping(canon.v[k])
              \/ IsEmptySequence(canon.v[k]))

ClaimedSensitive ==
    {s_password, s_secret, s_ssh_key_data, s_ssh_key_unlock, s_token,
     s_client_secret, s_become_password}

\* C2: the inputs mapping of the record normalize_credential returns, when
\* the field is emitted, holds none of the seven sensitive keys.
C2_NoSensitiveInputs ==
    (nkind = "credential" /\ Returned /\ s_inputs \in DOMAIN canon.v) =>
        /\ isdict(canon.v[s_inputs])
        /\ DOMAIN canon.v[s_inputs].v \cap ClaimedSensitive = {}

\* C2 witness: a raw inputs mapping held password and another key, and the
\* canonical record emits inputs with the other key.
C2_Witness ==
    /\ nkind = "credential" /\ Returned
    /\ isdict(raw) /\ s_inputs \in DOMAIN raw.v /\ isdict(raw.v[s_inputs])
    /\ s_password \in DOMAIN raw.v[s_inputs].v
    /\ s_inputs \in DOMAIN canon.v
    /\ s_username \in DOMAIN canon.v[s_inputs].v

\* C3 (as claimed): whenever a normalizer returned a record, applying it to
\* that record succeeds and returns the identical record.
C3_Idempotent == npc = "twice" => again = canon

IsNonEmptyStr(x) == isstr(x) /\ Len(x.v) > 0

\* the canonical record holds no credential_type, every reference it holds
\* (and every credentials element) is a non-empty string, and an execution
\* environment holds pull
C3_Shape ==
    /\ s_credential_type \notin DOMAIN canon.v
    /\ \A f \in ReferenceFields \cap DOMAIN canon.v : IsNonEmptyStr(canon.v[f])
    /\ (nkind = "job_template" /\ s_credentials \in DOMAIN canon.v) =>
           /\ islist(canon.v[s_credentials])
           /\ \A i \in 1..Len(canon.v[s_credentials].v) :
                  IsNonEmptyStr(canon.v[s_credentials].v[i])
    /\ nkind = "execution_environment" => s_pull \in DOMAIN canon.v

\* C3 (amended): applying a normalizer to the record it returned succeeds and
\* returns the identical record exactly when that record holds no
\* credential_type, holds only non-empty strings as references and as
\* credentials elements, and (execution environment) holds pull.
C3_IdempotentOnShape == npc = "twice" => (again = canon <=> C3_Shape)

\* C3 witness: a job template whose organization was given as a nested record
\* was normalized twice to the same record, which holds the organization.
C3_Witness ==
    /\ npc = "twice" /\ nkind = "job_template" /\ C3_Shape /\ again = canon
    /\ isdict(raw) /\ s_organization \in DOMAIN raw.v
    /\ isdict(raw.v[s_organization])
    /\ s_organization \in DOMAIN canon.v

\* C5 (as claimed): every reference field of a returned record, and every
\* element of a job template's credentials, is a plain string.
C5_ReferencesAreStrings ==
    Returned =>
        /\ \A f \in ReferenceFields \cap DOMAIN canon.v : isstr(canon.v[f])
        /\ (nkind = "job_template" /\ s_credentials \in DOMAIN canon.v) =>
               \A i \in 1..Len(canon.v[s_credentials].v) :
                   isstr(canon.v[s_credentials].v[i])

\* C6 (as claimed): every string-valued field of a returned record has no
\* leading or trailing whitespace.
C6_AllStringsTrimmed ==
    Returned =>
        \A k \in DOMAIN canon.v : isstr(canon.v[k]) => Trimmed(canon.v[k].v)

\* C6 (amended): the string-valued name, image and reference fields of a
\* returned record, and the string elements of a job template's credentials,
\* have no leading or trailing whitespace; the other string fields are
\* written as given.
C6_NamesTrimmed ==
    Returned =>
        /\ \A k \in ({s_name, s_image} \cup ReferenceFields) \cap DOMAIN canon.v :
               isstr(canon.v[k]) => Trimmed(canon.v[k].v)
        /\ (nkind = "job_template" /\ s_credentials \in DOMAIN canon.v) =>
               \A i \in 1..Len(canon.v[s_credentials].v) :
                   isstr(canon.v[s_credentials].v[i]) =>
                       Trimmed(canon.v[s_credentials].v[i].v)
        /\ \A k \in {s_description, s_scm_url, s_playbook} \cap DOMAIN canon.v :
               (isdict(raw) /\ k \in DOMAIN raw.v /\ truthy(raw.v[k])) =>
                   canon.v[k] = raw.v[k]

\* C6 witness: a raw name with surrounding whitespace was written trimmed.
C6_Witness ==
    /\ Returned /\ isdict(raw) /\ s_name \in DOMAIN raw.v
    /\ raw.v[s_name] = S(padded)
    /\ canon.v[s_name] = S(plain)

\* a raw project record that holds only a string name and a non-empty
\* string scm_url
C7_Pre ==
    /\ nkind = "project" /\ Returned /\ isdict(raw)
    /\ DOMAIN raw.v = {s_name, s_scm_url}
    /\ isstr(raw.v[s_name])
    /\ IsNonEmptyStr(raw.v[s_scm_url])

C7_Claimed ==
    (s_name :> S(TrimmedForm(raw.v[s_name].v)))
    @@ (s_scm_type :> S(s_git))
    @@ (s_scm_branch :> S(s_main))
    @@ (s_scm_update_on_launch :> B(TRUE))
    @@ (s_allow_override :> B(TRUE))
    @@ (s_state :> S(s_present))

\* C7 (as claimed): such a record normalizes to exactly name (trimmed),
\* scm_type "git", scm_branch "main", scm_update_on_launch true,
\* allow_override true and state "present".
C7_ExactFields == C7_Pre => canon = D(C7_Claimed)

\* C7 (amended): such a record normalizes to exactly the claimed fields plus
\* description = "" (an empty string is not pruned) and scm_url as given.
C7_ExactFieldsWithDescription ==
    C7_Pre =>
        canon = D(C7_Claimed @@ (s_description :> S(EmptyStr))
                  @@ (s_scm_url :> raw.v[s_scm_url]))

\* C7 witness: the record {name: " Web ", scm_url: non-empty} was normalized.
C7_Witness == C7_Pre /\ raw.v[s_name] = S(padded) /\ canon.v[s_name] = S(plain)

(* --------------------------- verify_yaml.py -------------------------- *)

\* the files in the order EXPECTED_FILES lists them
EXPECTED_FILES ==
    << [fname |-> "controller_organizations.yml",
        topkey |-> s_controller_organizations],
       [fname |-> "controller_credentials.yml",
        topkey |-> s_controller_credentials],
       [fname |-> "controller_projects.yml", topkey |-> s_controller_projects],
       [fname |-> "controller_inventories.yml",
        topkey |-> s_controller_inventories],
       [fname |-> "controller_templates.yml",
        topkey |-> s_controller_templates],
       [fname |-> "controller_workflows.yml",
        topkey |-> s_controller_workflows],
       [fname |-> "controller_execution_environments.yml",
        topkey |-> s_controller_execution_environments] >>

REQUIRED_FIELDS_PER_LIST_ITEM ==
    (s_controller_organizations :> <<s_name>>)
    @@ (s_controller_credentials :> <<s_name, s_credential_type>>)
    @@ (s_controller_projects :> <<s_name>>)
    @@ (s_controller_inventories :> <<s_name>>)
    @@ (s_controller_templates :> <<s_name, s_project, s_job_type>>)
    @@ (s_controller_workflows :> <<s_name>>)
    @@ (s_controller_execution_environments :> <<s_name, s_image>>)

\* REQUIRED_FIELDS_PER_LIST_ITEM.get(kind, ["name"])
required_fields(kind) ==
    IF kind \in DOMAIN REQUIRED_FIELDS_PER_LIST_ITEM
    THEN REQUIRED_FIELDS_PER_LIST_ITEM[kind] ELSE <<s_name>>

\* an entry of the list validate_list_items returns: the kind, the 0-based
\* index, which message it is, and the field a "missing" message names
ItemError(kind, idx, what, field) ==
    [kind |-> kind, idx |-> idx, what |-> what, field |-> field]

\* a variant that stops at the first missing field of a record
RECURSIVE field_errors_first_only(_, _, _, _)
field_errors_first_only(kind, idx, obj, required) ==
    IF required = <<>> THEN <<>>
    ELSE LET field == Head(required) IN
         IF field \notin DOMAIN obj.v \/ obj.v[field] \in {None, S(EmptyStr)}
         THEN <<ItemError(kind, idx, "missing", field)>>
         ELSE field_errors_first_only(kind, idx, obj, Tail(required))

\* for field in required: if field not in obj or obj[field] in (None, ""): ...
RECURSIVE field_errors(_, _, _, _)
field_errors(kind, idx, obj, required) ==
    IF required = <<>> THEN <<>>
    ELSE LET field == Head(required) IN
         (IF field \notin DOMAIN obj.v \/ obj.v[field] \in {None, S(EmptyStr)}
          THEN <<ItemError(kind, idx, "missing", field)>> ELSE <<>>)
         \o field_errors(kind, idx, obj, Tail(required))

\* the body of the loop over enumerate(items), for one item
item_errors(kind, idx, obj, required) ==
    IF ~isdict(obj) THEN <<ItemError(kind, idx, "not_mapping", EmptyStr)>>
    ELSE field_errors(kind, idx, obj, required)
         \o (IF s_state \in DOMAIN obj.v /\ ~isstr(obj.v[s_state])
             THEN <<ItemError(kind, idx, "state_type", s_state)>> ELSE <<>>)

RECURSIVE items_errors_from(_, _, _, _)
items_errors_from(kind, items, i, required) ==
    IF i > Len(items) THEN <<>>
    ELSE item_errors(kind, i - 1, items[i], required)
         \o items_errors_from(kind, items, i + 1, required)

validate_list_items(kind, items) ==
    items_errors_from(kind, items, 1, required_fields(kind))

(* ------------- a call of validate_list_items on drawn items ---------- *)

\* at most this many records in the sequence given to validate_list_items
MaxItems == 2

ItemSamples ==
    {None, S(plain), D(EmptyMap),
     D(s_name :> S(plain)), D(s_name :> None), D(s_name :> S(EmptyStr)),
     D(s_name :> L(<<>>)), D(s_name :> I(0)),
     D((s_name :> S(plain)) @@ (s_state :> I(1))),
     D(s_state :> B(TRUE)),
     D((s_name :> S(plain)) @@ (s_state :> S(s_present))
       @@ (s_credential_type :> S(s_Machine)) @@ (s_image :> S(plain))
       @@ (s_project :> S(plain)) @@ (s_job_type :> S(s_run))),
     D((s_name :> S(plain)) @@ (s_project :> S(EmptyStr))
       @@ (s_image :> None))}

TopKeys == {EXPECTED_FILES[i].topkey : i \in 1..Len(EXPECTED_FILES)}

InitItems ==
    /\ vkind \in TopKeys \cup {s_kind}
    /\ \E n \in 0..MaxItems : vitems \in [1..n -> ItemSamples]
    /\ verrs = <<>>
    /\ ipc = "call"
    /\ IdleNorm /\ IdleVerify /\ IdleOrch

ValidateListItems ==
    /\ ipc = "call"
    /\ verrs' = validate_list_items(vkind, vitems)
    /\ ipc' = "returned"
    /\ UNCHANGED <<vkind, vitems, nvars, vvars, ovars>>

NextItems == ValidateListItems

SpecItems == InitItems /\ [][NextItems]_vars

\* the required-field subsets the specification lists per kind
ClaimedRequired(kind) ==
    CASE kind = s_controller_credentials -> {s_name, s_credential_type}
      [] kind = s_controller_templates -> {s_name, s_project, s_job_type}
      [] kind = s_controller_execution_environments -> {s_name, s_image}
      [] OTHER -> {s_name}

NotMappingAt == {i \in 1..Len(vitems) : ~isdict(vitems[i])}

MissingAt ==
    {p \in (1..Len(vitems)) \X ClaimedRequired(vkind) :
        /\ isdict(vitems[p[1]])
        /\ \/ p[2] \notin DOMAIN vitems[p[1]].v
           \/ IsNull(vitems[p[1]].v[p[2]])
           \/ vitems[p[1]].v[p[2]] = S(EmptyStr)}

BadStateAt ==
    {i \in 1..Len(vitems) :
        /\ isdict(vitems[i]) /\ s_state \in DOMAIN vitems[i].v
        /\ ~isstr(vitems[i].v[s_state])}

\* C8: validate_list_items returns exactly one error per violation: one per
\* record that is not a mapping, one per (mapping record, required field)
\* whose field is absent, null or the empty string, one per mapping record
\* whose state is present and not a string; each names its record's index
\* (and the missing field).
C8_OneErrorPerViolation ==
    ipc = "returned" =>
        /\ Len(verrs) =
               Cardinality(NotMappingAt) + Cardinality(MissingAt)
               + Cardinality(BadStateAt)
        /\ {<<e.idx, e.what, e.field>> : e \in {verrs[j] : j \in 1..Len(verrs)}} =
               {<<i - 1, "not_mapping", EmptyStr>> : i \in NotMappingAt}
               \cup {<<p[1] - 1, "missing", p[2]>> : p \in MissingAt}
               \cup {<<i - 1, "state_type", s_state>> : i \in BadStateAt}
        /\ \A j \in 1..Len(verrs) : verrs[j].kind = vkind

\* C8 witness: of two records only the second lacks name, nothing else is
\* wrong, and the one error returned names index 1 and the field name.
C8_Witness ==
    /\ ipc = "returned" /\ Len(vitems) = 2
    /\ NotMappingAt = {} /\ BadStateAt = {} /\ MissingAt = {<<2, s_name>>}
    /\ verrs = <<ItemError(vkind, 1, "missing", s_name)>>

(* ------------------------ verify_yaml.py main ------------------------ *)

\* whether sequence sub occurs in s as a contiguous run (str `in` str)
substring(sub, s) ==
    \E i \in 0..(Len(s) - Len(sub)) : SubSeq(s, i + 1, i + Len(sub)) = sub

\* load_yaml: the document parsed, with a falsy document replaced by {}
load_yaml(doc) == Or(doc, D(EmptyMap))

\* `expected_key in data`; a number or a boolean is not a container
contains_key(data, expected_key) ==
    CASE isdict(data) -> expected_key \in DOMAIN data.v
      [] isstr(data)  -> substring(expected_key, data.v)
      [] islist(data) -> \E i \in 1..Len(data.v) : data.v[i] = S(expected_key)
      [] OTHER        -> FALSE

\* what validate_top_level does: it returns (ok, msg), or raises
TopLevel(ok, msg, raised) == [ok |-> ok, msg |-> msg, raised |-> raised]

validate_top_level(data, expected_key) ==
    IF data.t \in {"int", "bool", "none"} THEN TopLevel(FALSE, "", "TypeError")
    ELSE IF ~contains_key(data, expected_key)
    THEN TopLevel(FALSE, "missing_top_level_key", "")
    ELSE IF ~isdict(data) THEN TopLevel(FALSE, "", "TypeError")
    ELSE IF ~islist(data.v[expected_key])
    THEN TopLevel(FALSE, "must_be_a_list", "")
    ELSE TopLevel(TRUE, "", "")

\* the states the file of top-level key k may be found in: absent, not
\* parseable, or parsed to one of these documents
Documents(k) ==
    {None, I(42), S(plain), S(k), L(<<I(1)>>), L(<<S(k)>>),
     D(s_name :> L(<<>>)), D(k :> S(plain)), D(k :> L(<<>>)),
     D(k :> L(<<D(EmptyMap)>>)),
     D(k :> L(<<D((s_name :> S(plain)) @@ (s_state :> S(s_present))
                  @@ (s_credential_type :> S(s_Machine)) @@ (s_image :> S(plain))
                  @@ (s_project :> S(plain)) @@ (s_job_type :> S(s_run)))>>))}

FileStates(k) ==
    {[cond |-> "absent", doc |-> None], [cond |-> "unparseable", doc |-> None]}
    \cup {[cond |-> "parsed", doc |-> d] : d \in Documents(k)}

FileMessage(fname, what, detail) ==
    [file |-> fname, what |-> what, detail |-> detail]

InitVerify ==
    /\ base_exists \in BOOLEAN
    /\ strict \in BOOLEAN
    /\ fidx = 1
    /\ warnings = <<>>
    /\ errors = <<>>
    /\ vpc = "start"
    /\ rc = -1
    /\ IdleNorm /\ IdleItems /\ IdleOrch

\* main, lines 98-104: the directory check
VerifyStart ==
    /\ vpc = "start"
    /\ IF ~base_exists
       THEN vpc' = "exit" /\ rc' = 2
       ELSE vpc' = "loop" /\ rc' = rc
    /\ UNCHANGED <<base_exists, strict, fidx, warnings, errors, nvars, ivars, ovars>>

\* main, lines 106-125: one iteration of the loop over EXPECTED_FILES, on
\* the file found in state f
VisitFile ==
    /\ vpc = "loop"
    /\ fidx <= Len(EXPECTED_FILES)
    /\ LET fname == EXPECTED_FILES[fidx].fname
           topkey == EXPECTED_FILES[fidx].topkey
       IN \E f \in FileStates(topkey) :
          IF f.cond = "absent"
          THEN /\ warnings' = Append(warnings, FileMessage(fname, "missing_file", <<>>))
               /\ fidx' = fidx + 1
               /\ UNCHANGED <<errors, vpc>>
          ELSE IF f.cond = "unparseable"
          THEN /\ errors' = Append(errors, FileMessage(fname, "parse_failed", <<>>))
               /\ fidx' = fidx + 1
               /\ UNCHANGED <<warnings, vpc>>
          ELSE LET data == load_yaml(f.doc)
                   top == validate_top_level(data, topkey)
               IN IF top.raised # ""
                  THEN /\ vpc' = "raised"
                       /\ UNCHANGED <<warnings, errors, fidx>>
                  ELSE IF ~top.ok
                  THEN /\ errors' = Append(errors, FileMessage(fname, top.msg, <<>>))
                       /\ fidx' = fidx + 1
                       /\ UNCHANGED <<warnings, vpc>>
                  ELSE LET items == getd(data.v, topkey, L(<<>>))
                           item_errs == validate_list_items(topkey, items.v)
                       IN /\ errors' = errors \o
                               [j \in 1..Len(item_errs) |->
                                   FileMessage(fname, "item", item_errs[j])]
                          /\ fidx' = fidx + 1
                          /\ UNCHANGED <<warnings, vpc>>
    /\ UNCHANGED <<base_exists, strict, rc, nvars, ivars, ovars>>

\* the exit code main returns after the loop
exit_code(errs, warns, strict_flag) ==
    IF Len(errs) > 0 THEN 2
    ELSE IF Len(warns) > 0 THEN (IF strict_flag THEN 1 ELSE 0)
    ELSE 0

\* main, lines 127-140
VerifyFinish ==
    /\ vpc = "loop"
    /\ fidx > Len(EXPECTED_FILES)
    /\ rc' = exit_code(errors, warnings, strict)
    /\ vpc' = "exit"
    /\ UNCHANGED <<base_exists, strict, fidx, warnings, errors, nvars, ivars, ovars>>

NextVerify == VerifyStart \/ VisitFile \/ VerifyFinish

SpecVerify == InitVerify /\ [][NextVerify]_vars

\* C4 (as claimed): the exit code is 2 when the directory is not found or an
\* error was recorded; otherwise, with a warning recorded, 1 in non-strict
\* mode and 2 in strict mode; otherwise 0.
C4_ExitCode ==
    vpc = "exit" =>
        rc = IF ~base_exists \/ Len(errors) > 0 THEN 2
             ELSE IF Len(warnings) > 0 THEN (IF strict THEN 2 ELSE 1)
             ELSE 0

\* C9 (as claimed): whatever state each of the seven files is found in, the
\* run never ends in an uncaught failure: it visits all seven files and
\* terminates with an exit code, having recorded one message for every file
\* that is absent, unparseable or wrongly shaped.
C9_RunCompletes ==
    /\ vpc # "raised"
    /\ (vpc = "exit" /\ base_exists) =>
          /\ fidx = Len(EXPECTED_FILES) + 1
          /\ rc \in {0, 1, 2}

(* -------------------- transform_24_to_25.py main --------------------- *)

\* the resources main loads, in order (lines 265-271)
RESOURCES ==
    <<"organizations", "credentials", "projects", "inventories",
      "job_templates", "workflow_job_templates", "execution_environments">>

\* the documents main writes, in order (lines 273-279)
OUTPUTS ==
    << [fname |-> "controller_organizations.yml",
        topkey |-> s_controller_organizations],
       [fname |-> "controller_credentials.yml",
        topkey |-> s_controller_credentials],
       [fname |-> "controller_projects.yml", topkey |-> s_controller_projects],
       [fname |-> "controller_inventories.yml",
        topkey |-> s_controller_inventories],
       [fname |-> "controller_templates.yml",
        topkey |-> s_controller_templates],
       [fname |-> "controller_workflows.yml",
        topkey |-> s_controller_workflows],
       [fname |-> "controller_execution_environments.yml",
        topkey |-> s_controller_execution_environments] >>

\* a variant of main that writes each collection right after building it
MainStepsInterleaved ==
    [j \in 1..(2 * Len(RESOURCES)) |->
        IF j % 2 = 1 THEN [op |-> "normalize", i |-> (j + 1) \div 2]
        ELSE [op |-> "write", i |-> j \div 2]]

\* the statements of main after the directory check: the seven
\* load-and-normalize assignments, then the seven _write_yaml calls
MainSteps ==
    [j \in 1..(2 * Len(RESOURCES)) |->
        IF j <= Len(RESOURCES) THEN [op |-> "normalize", i |-> j]
        ELSE [op |-> "write", i |-> j - Len(RESOURCES)]]

\* _load_json: [] when the file does not exist, else what json.load returns
\* or raises
_load_json(file) == IF ~file.exists THEN L(<<>>) ELSE file.json

\* [normalize(r) for r in items]: the list, or the first exception raised
RECURSIVE normalize_each(_, _)
normalize_each(kind, items) ==
    IF items = <<>> THEN L(<<>>)
    ELSE LET first == normalize(kind, Head(items)) IN
         IF IsRaise(first) THEN first
         ELSE LET rest == normalize_each(kind, Tail(items)) IN
              IF IsRaise(rest) THEN rest ELSE L(<<first>> \o rest.v)

\* one assignment of lines 265-271
load_and_normalize(kind, file) ==
    LET loaded == _load_json(file) IN
    IF IsRaise(loaded) THEN loaded
    ELSE IF ~iterable(loaded) THEN Raise("TypeError")
    ELSE normalize_each(kind, iter(loaded))

\* at most this many of the seven export files exist
MaxExportFiles == 2

NamedRecord == D((s_name :> S(padded)) @@ (s_id :> I(7)))
NoNameRecord == D(s_id :> I(7))

ExportRecordLists(kind) ==
    {<<>>, <<NamedRecord>>, <<NoNameRecord>>, <<S(plain)>>,
     <<NamedRecord, NoNameRecord>>, <<NamedRecord, S(plain)>>}
    \cup (IF kind = "credential"
          THEN {<<D((s_name :> S(plain)) @@ (s_credential_type :> S(s_Machine)))>>}
          ELSE {})

AbsentFile == [exists |-> FALSE, json |-> None]

\* the states the export file of a kind may be in when it exists
ExportFiles(kind) ==
    {[exists |-> TRUE, json |-> L(l)] : l \in ExportRecordLists(kind)}
    \cup {[exists |-> TRUE, json |-> Raise("JSONDecodeError")],
          [exists |-> TRUE, json |-> I(7)]}

\* every assignment of files to the positions in P, the others absent
RECURSIVE ExportsOver(_)
ExportsOver(P) ==
    IF P = {} THEN {[i \in 1..Len(RESOURCES) |-> AbsentFile]}
    ELSE LET i == CHOOSE j \in P : TRUE IN
         {[e EXCEPT ![i] = f] : e \in ExportsOver(P \ {i}),
                                f \in ExportFiles(KINDS[i])}

\* the sets of at most MaxExportFiles positions whose file exists
ExportSets ==
    {Q \in SUBSET (1..Len(RESOURCES)) : Cardinality(Q) <= MaxExportFiles}

InitOrch ==
    /\ export_exists \in BOOLEAN
    /\ \E P \in (IF export_exists THEN ExportSets ELSE {{}}) :
            export \in ExportsOver(P)
    /\ colls = <<>>
    /\ written = <<>>
    /\ opc = "start"
    /\ ostep = 1
    /\ orc = -1
    /\ IdleNorm /\ IdleItems /\ IdleVerify

\* main, lines 261-263
OrchStart ==
    /\ opc = "start"
    /\ IF ~export_exists
       THEN opc' = "exit" /\ orc' = 2
       ELSE opc' = "steps" /\ orc' = orc
    /\ UNCHANGED <<export_exists, export, colls, written, ostep, nvars, ivars, vvars>>

\* one of lines 265-271; an exception leaves main
NormalizeStep ==
    /\ opc = "steps"
    /\ ostep <= Len(MainSteps)
    /\ MainSteps[ostep].op = "normalize"
    /\ LET i == MainSteps[ostep].i
           res == load_and_normalize(KINDS[i], export[i])
       IN IF IsRaise(res)
          THEN opc' = "raised" /\ UNCHANGED <<colls, ostep>>
          ELSE /\ colls' = (KINDS[i] :> res.v) @@ colls
               /\ ostep' = ostep + 1
               /\ opc' = opc
    /\ UNCHANGED <<export_exists, export, written, orc, nvars, ivars, vvars>>

\* one of lines 273-279
WriteStep ==
    /\ opc = "steps"
    /\ ostep <= Len(MainSteps)
    /\ MainSteps[ostep].op = "write"
    /\ LET i == MainSteps[ostep].i IN
       written' = Append(written,
                         [fname |-> OUTPUTS[i].fname,
                          data |-> D(OUTPUTS[i].topkey :> L(colls[KINDS[i]]))])
    /\ ostep' = ostep + 1
    /\ UNCHANGED <<export_exists, export, colls, opc, orc, nvars, ivars, vvars>>

\* main, lines 281-282
OrchFinish ==
    /\ opc = "steps"
    /\ ostep > Len(MainSteps)
    /\ opc' = "exit"
    /\ orc' = 0
    /\ UNCHANGED <<export_exists, export, colls, written, ostep, nvars, ivars, vvars>>

NextOrch == OrchStart \/ NormalizeStep \/ WriteStep \/ OrchFinish

SpecOrch == InitOrch /\ [][NextOrch]_vars

\* the records of the export file at position i, when it holds a sequence
ExportRecords(i) ==
    IF export[i].exists /\ islist(export[i].json) THEN export[i].json.v ELSE <<>>

HasNoNameRecord ==
    \E i \in 1..Len(RESOURCES) : \E j \in 1..Len(ExportRecords(i)) :
        LET r == ExportRecords(i)[j] IN
        isdict(r) /\ (s_name \notin DOMAIN r.v \/ IsNull(r.v[s_name]))

\* some export file cannot be decoded, holds a number instead of a
\* sequence, or holds a record on which the normalizer of its kind raises
HasRaisingInput ==
    \E i \in 1..Len(RESOURCES) :
        /\ export[i].exists
        /\ \/ IsRaise(export[i].json)
           \/ export[i].json.t = "int"
           \/ \E j \in 1..Len(ExportRecords(i)) :
                  IsRaise(normalize(KINDS[i], ExportRecords(i)[j]))

\* C10 (as claimed): a run whose input holds a record with a data error, a
\* record with no name included, halts with an uncaught failure before any
\* output is written.
C10_DataErrorHaltsBeforeWrite ==
    (export_exists /\ (HasNoNameRecord \/ HasRaisingInput)) =>
        (written = <<>> /\ opc # "exit")

\* C10 (amended): a run whose input makes a normalizer (or the load) raise
\* halts with the failure uncaught before any output is written; a record
\* with no name raises nothing, and a run without a raising input writes
\* all seven outputs.
C10_RaisingInputHaltsBeforeWrite ==
    /\ (export_exists /\ HasRaisingInput) => (written = <<>> /\ opc # "exit")
    /\ (export_exists /\ ~HasRaisingInput /\ opc = "exit") =>
           (orc = 0 /\ Len(written) = Len(OUTPUTS))

\* C10 witness: the run normalized an earlier kind, then a record of a later
\* kind raised and the run ended with nothing written.
C10_Witness ==
    /\ opc = "raised" /\ ostep > 1 /\ written = <<>>
    /\ Len(ExportRecords(1)) > 0
    /\ \E j \in 1..Len(ExportRecords(ostep)) :
           IsRaise(normalize(KINDS[ostep], ExportRecords(ostep)[j]))

=============================================================================
